---- MODULE Spec2Model ----
(***************************************************************************)
(* Streaming transport core of the chat client: the useSSEStream hook      *)
(* (cancellation token, retry loop, chunk decoding, frame parsing and      *)
(* dispatch) as a state machine.                                           *)
(*                                                                         *)
(* Text is modelled as a sequence of units.  A unit is either one '\n',    *)
(* one byte of a 3-byte UTF-8 character, or an indivisible ASCII piece     *)
(* ("event: ", "data: ", a type name, a piece of JSON).  A chunk boundary  *)
(* may fall between any two units.                                         *)
(***************************************************************************)
EXTENDS Integers, Sequences, FiniteSets, TLC

\* ------------------------------------------------------------------------
\* Bounds of the model
\* ------------------------------------------------------------------------
MaxOps == 3
MaxChunks == 2
MaxBodyLen == 2
MaxCalls == 2
MaxEnrolls == 2
MaxIssued == 2
MaxInits == 2
MaxLoads == 2
MaxCreated == 1
MaxTipLen == 5
MaxConcurrent == 2
MaxOverlap == 2

\* ------------------------------------------------------------------------
\* Program constants
\* ------------------------------------------------------------------------
maxAttempts == 3
baseDelayMs == 1000
backoffMultiplier == 2
RETRYABLE_HTTP_STATUSES == {502, 503, 504}

\* ------------------------------------------------------------------------
\* Text units
\* ------------------------------------------------------------------------
NL == "\n"
EventPrefix == "event: "
DataPrefix == "data: "
LeadByte == "xE1"
ContByte == "x83"
Georgian == "U+10D0"
Replacement == "U+FFFD"

RECURSIVE Pow(_, _)
Pow(b, e) == IF e = 0 THEN 1 ELSE b * Pow(b, e - 1)

\* TextDecoder('utf-8').decode(value, {stream: true}) : the decoder holds the
\* bytes of an incomplete character in `pending` between calls.
RECURSIVE DecodeStream(_, _, _)
DecodeStream(pending, bytes, out) ==
    IF bytes = <<>> THEN [pending |-> pending, text |-> out]
    ELSE LET b == Head(bytes) IN
         IF pending = <<>>
         THEN IF b = LeadByte THEN DecodeStream(<<b>>, Tail(bytes), out)
              ELSE IF b = ContByte THEN DecodeStream(<<>>, Tail(bytes), Append(out, Replacement))
              ELSE DecodeStream(<<>>, Tail(bytes), Append(out, b))
         ELSE IF b = ContByte
              THEN IF Len(pending) = 2
                   THEN DecodeStream(<<>>, Tail(bytes), Append(out, Georgian))
                   ELSE DecodeStream(Append(pending, b), Tail(bytes), out)
              ELSE DecodeStream(<<>>, bytes, Append(out, Replacement))

\* decoder.decode() with no input: the final flush
DecodeFlush(pending) == IF pending = <<>> THEN <<>> ELSE <<Replacement>>

\* String.prototype.split(sep) for a two-unit separator '\n\n' and for '\n'
RECURSIVE SplitBlank(_, _)
SplitBlank(s, cur) ==
    IF s = <<>> THEN <<cur>>
    ELSE IF Len(s) >= 2 /\ s[1] = NL /\ s[2] = NL
         THEN <<cur>> \o SplitBlank(SubSeq(s, 3, Len(s)), <<>>)
         ELSE SplitBlank(Tail(s), Append(cur, Head(s)))

RECURSIVE SplitLines(_, _)
SplitLines(s, cur) ==
    IF s = <<>> THEN <<cur>>
    ELSE IF Head(s) = NL
         THEN <<cur>> \o SplitLines(Tail(s), <<>>)
         ELSE SplitLines(Tail(s), Append(cur, Head(s)))

\* lines.find(line => line.startsWith(prefix)) ; <<"none">> stands for undefined
RECURSIVE FindLine(_, _)
FindLine(lines, prefix) ==
    IF lines = <<>> THEN <<"none">>
    ELSE IF Head(lines) # <<>> /\ Head(lines)[1] = prefix THEN <<"some", Head(lines)>>
    ELSE FindLine(Tail(lines), prefix)

\* ------------------------------------------------------------------------
\* JSON payloads
\* ------------------------------------------------------------------------
ContentOpen == "{\"content\":\""
TextOpen == "{\"text\":\""
MessageOpen == "{\"message\":\""
TypedTextOpen == "{\"type\":\"text\",\"content\":\""
ContentClose == "\"}"
JsonNull == "null"
JsonSession == "{\"session_id\":\"S1\"}"
JsonEmpty == "{}"
JsonOptions == "{\"options\":[{\"title\":\"T\",\"payload\":\"P\"}]}"
JsonNoOptions == "{\"options\":[]}"
JsonFinish == "{\"finish_reason\":\"SAFETY\"}"
JsonBad == "{oops"
TipOpen == "[TIP]"
TipClose == "[/TIP]"
ContentChars == {"A", "B", Georgian, Replacement, TipOpen, TipClose}

Undefined == <<"undefined">>
SyntaxError == [kind |-> "SyntaxError"]
NullValue == [kind |-> "null"]
EmptyObject ==
    [kind |-> "object", type |-> Undefined, content |-> Undefined, text |-> Undefined,
     message |-> Undefined, session_id |-> Undefined, options |-> Undefined,
     replies |-> Undefined, finish_reason |-> Undefined]

\* JSON.parse of the remainder of the data line
JsonParse(s) ==
    IF s = <<JsonNull>> THEN NullValue
    ELSE IF s = <<JsonSession>> THEN [EmptyObject EXCEPT !.session_id = <<"S1">>]
    ELSE IF s = <<JsonEmpty>> THEN EmptyObject
    ELSE IF s = <<JsonOptions>> THEN [EmptyObject EXCEPT !.options = <<"array", "T/P">>]
    ELSE IF s = <<JsonNoOptions>> THEN [EmptyObject EXCEPT !.options = <<"array">>]
    ELSE IF s = <<JsonFinish>> THEN [EmptyObject EXCEPT !.finish_reason = <<"SAFETY">>]
    ELSE IF /\ Len(s) >= 2
            /\ s[1] \in {ContentOpen, TextOpen, MessageOpen, TypedTextOpen}
            /\ s[Len(s)] = ContentClose
            /\ \A i \in 2..(Len(s) - 1) : s[i] \in ContentChars
         THEN LET str == SubSeq(s, 2, Len(s) - 1) IN
              IF s[1] = ContentOpen THEN [EmptyObject EXCEPT !.content = str]
              ELSE IF s[1] = TextOpen THEN [EmptyObject EXCEPT !.text = str]
              ELSE IF s[1] = MessageOpen THEN [EmptyObject EXCEPT !.message = str]
              ELSE [EmptyObject EXCEPT !.type = <<"text">>, !.content = str]
    ELSE SyntaxError

NoFrame == [type |-> <<"null">>, data |-> SyntaxError]

parseSSEEvent(eventString) ==
    LET lines == SplitLines(eventString, <<>>)
        eventLine == FindLine(lines, EventPrefix)
        dataLine == FindLine(lines, DataPrefix)
    IN  IF dataLine[1] = "none" THEN NoFrame
        ELSE LET data == JsonParse(Tail(dataLine[2])) IN
             IF data.kind = "SyntaxError" THEN NoFrame
             ELSE IF eventLine[1] = "some"
                  THEN [type |-> Tail(eventLine[2]), data |-> data]
                  \* data.type on null throws inside the try: caught, null returned
                  ELSE IF data.kind = "null" THEN NoFrame
                  ELSE [type |-> IF data.type = Undefined THEN <<"unknown">> ELSE data.type,
                        data |-> data]

\* ------------------------------------------------------------------------
\* Errors
\* ------------------------------------------------------------------------
NoError == [name |-> "none", message |-> <<>>]
AbortError == [name |-> "AbortError", message |-> <<"Aborted">>]
FailedToFetch == [name |-> "TypeError", message |-> <<"Failed to fetch">>]
NullRefError == [name |-> "TypeError", message |-> <<"Cannot read properties of null (reading 'signal')">>]
NullDataError == [name |-> "TypeError", message |-> <<"Cannot convert undefined or null to object">>]
HttpError(status) == [name |-> "Error", message |-> <<"HTTP ", status>>]
NoBodyError == [name |-> "Error", message |-> <<"No response body">>]

isRetryableError(error) ==
    IF error.name = "AbortError" THEN FALSE
    ELSE IF error.name = "TypeError" THEN TRUE
    ELSE IF error.name = "Error" /\ error.message[1] = "HTTP "
         THEN error.message[2] \in RETRYABLE_HTTP_STATUSES
    ELSE FALSE

\* ------------------------------------------------------------------------
\* Event dispatch
\* ------------------------------------------------------------------------
Call(handler, arg) == [handler |-> handler, arg |-> arg]

\* content.replace(/\[TIP\][\s\S]*?\[\/TIP\]/g, '')
RECURSIVE IndexOf(_, _, _)
IndexOf(s, u, from) ==
    IF from > Len(s) THEN 0
    ELSE IF s[from] = u THEN from
    ELSE IndexOf(s, u, from + 1)

\* the same with a greedy quantifier
StripTipsGreedy(s) ==
    LET open == IndexOf(s, TipOpen, 1)
        closes == {j \in 1..Len(s) : s[j] = TipClose /\ j > open}
    IN  IF open = 0 \/ closes = {} THEN s
        ELSE LET close == CHOOSE j \in closes : \A k \in closes : k <= j IN
             SubSeq(s, 1, open - 1) \o SubSeq(s, close + 1, Len(s))

RECURSIVE StripTips(_)
StripTips(s) ==
    LET open == IndexOf(s, TipOpen, 1) IN
    IF open = 0 THEN s
    ELSE LET close == IndexOf(s, TipClose, open + 1) IN
         IF close = 0 THEN s
         ELSE SubSeq(s, 1, open - 1) \o StripTips(SubSeq(s, close + 1, Len(s)))

\* JavaScript truthiness of a string-or-undefined value, and a || b
Truthy(v) == v # Undefined /\ v # <<>>
OrElse(a, b) == IF Truthy(a) THEN a ELSE b
IsArray(v) == v # <<>> /\ v[1] = "array"

ErrorFallback == <<"fallback message">>
DefaultFinishReason == <<"MAX_TOKENS">>

\* The handler calls one frame produces; dispatchEvent is only reached with an
\* object payload (see DebugLogThrows)
dispatchEvent(type, data) ==
    IF type = <<"text">>
    THEN IF ~Truthy(data.content) THEN <<>>
         ELSE <<Call("onText", StripTips(data.content))>>
    ELSE IF type = <<"products">>
    THEN IF Truthy(data.content) THEN <<Call("onProducts", <<NL, NL>> \o data.content)>>
         ELSE <<>>
    ELSE IF type = <<"tip">>
    THEN LET tipText == OrElse(data.text, data.content) IN
         IF ~Truthy(tipText) THEN <<>>
         ELSE <<Call("onTip", <<NL, NL, TipOpen, NL>> \o tipText \o <<NL, TipClose>>)>>
    ELSE IF type = <<"thinking">>
    THEN IF Truthy(data.content) THEN <<Call("onThinking", data.content)>> ELSE <<>>
    ELSE IF type = <<"quick_replies">>
    THEN LET repliesData == OrElse(data.options, OrElse(data.replies, data.content)) IN
         IF ~IsArray(repliesData) \/ Len(repliesData) = 1 THEN <<>>
         ELSE <<Call("onQuickReplies", Tail(repliesData))>>
    ELSE IF type = <<"done">> THEN <<Call("onDone", data.session_id)>>
    ELSE IF type = <<"error">>
    THEN <<Call("onError", OrElse(data.message, OrElse(data.content, ErrorFallback)))>>
    ELSE IF type = <<"truncation_warning">>
    THEN <<Call("onTruncationWarning", OrElse(data.finish_reason, DefaultFinishReason))>>
    ELSE <<>>

\* console.log('[DEBUG SSE]', ..., 'keys=' + Object.keys(parsed.data)...) throws a
\* TypeError when the payload is the JSON value null
DebugLogThrows(parsed) == parsed.data.kind = "null"

\* for (const eventString of events) { ... } : the calls made, and whether the
\* loop was left by a thrown TypeError
RECURSIVE DispatchLoopUntilMalformed(_, _)
DispatchLoopUntilMalformed(events, calls) ==
    IF events = <<>> THEN [calls |-> calls, threw |-> FALSE]
    ELSE LET parsed == parseSSEEvent(Head(events)) IN
         IF parsed = NoFrame THEN [calls |-> calls, threw |-> FALSE]
         ELSE IF DebugLogThrows(parsed) THEN [calls |-> calls, threw |-> TRUE]
         ELSE LET now == calls \o dispatchEvent(parsed.type, parsed.data) IN
              IF parsed.type = <<"done">> THEN [calls |-> now, threw |-> FALSE]
              ELSE DispatchLoopUntilMalformed(Tail(events), now)

RECURSIVE DispatchLoop(_, _)
DispatchLoop(events, calls) ==
    IF events = <<>> THEN [calls |-> calls, threw |-> FALSE]
    ELSE LET parsed == parseSSEEvent(Head(events)) IN
         IF parsed = NoFrame THEN DispatchLoop(Tail(events), calls)
         ELSE IF DebugLogThrows(parsed) THEN [calls |-> calls, threw |-> TRUE]
         ELSE LET now == calls \o dispatchEvent(parsed.type, parsed.data) IN
              IF parsed.type = <<"done">> THEN [calls |-> now, threw |-> FALSE]
              ELSE DispatchLoop(Tail(events), now)

\* One pass of the body of while (true) after reader.read() returned
\* {done, value}; value = <<"none">> stands for undefined
ReadPassDispatchingRest(pending, buffer, value, done) ==
    LET dec == IF value[1] = "some" THEN DecodeStream(pending, value[2], <<>>)
               ELSE [pending |-> pending, text |-> <<>>]
        flushed == IF done THEN DecodeFlush(dec.pending) ELSE <<>>
        text == buffer \o dec.text \o flushed
        events == SplitBlank(text, <<>>)
        loop == DispatchLoop(IF done THEN events ELSE SubSeq(events, 1, Len(events) - 1), <<>>)
    IN  [pending |-> IF done THEN <<>> ELSE dec.pending,
         buffer |-> events[Len(events)],
         calls |-> loop.calls,
         threw |-> loop.threw]

ReadPass(pending, buffer, value, done) ==
    LET dec == IF value[1] = "some" THEN DecodeStream(pending, value[2], <<>>)
               ELSE [pending |-> pending, text |-> <<>>]
        flushed == IF done THEN DecodeFlush(dec.pending) ELSE <<>>
        text == buffer \o dec.text \o flushed
        events == SplitBlank(text, <<>>)
        loop == DispatchLoop(SubSeq(events, 1, Len(events) - 1), <<>>)
    IN  [pending |-> IF done THEN <<>> ELSE dec.pending,
         buffer |-> events[Len(events)],
         calls |-> loop.calls,
         threw |-> loop.threw]

\* ------------------------------------------------------------------------
\* Stream controller state
\* ------------------------------------------------------------------------
VARIABLES
    abortControllerRef,   \* 0 = null, k = the AbortController created by the k-th streamMessage call
    isStreamingRef,
    aborted,              \* the controllers whose signal.aborted is true
    started,              \* number of streamMessage calls so far
    ops                   \* the state of each streamMessage invocation

ctlVars == <<abortControllerRef, isStreamingRef, aborted, started, ops>>

\* The read loop of one attempt run on its own over a chunked response body
VARIABLES
    body,      \* the bytes of the whole response body
    rest,      \* the chunks reader.read() has yet to deliver
    decoder,   \* bytes held back by the TextDecoder
    buffer,    \* the text buffer of the read loop
    calls,     \* the handler calls made so far
    phase      \* "off", "reading", "ended" (reader reported done), "threw"

decVars == <<body, rest, decoder, buffer, calls, phase>>

\* The credential store and the calls of apiFetch and enrollApiKey
VARIABLES
    apiKey,        \* localStorage scoop_api_key: 0 = absent, k = the k-th credential the server issued
    csrfToken,     \* sessionStorage scoop_csrf_token, likewise
    userId,        \* whether localStorage holds scoop_user_id
    issued,        \* number of keys and tokens issued so far
    api,           \* the apiFetch call
    enroll,        \* the enrollApiKey call made by initializeSession
    apiCalls,      \* number of apiFetch calls so far
    enrollCalls,   \* number of such enrollApiKey calls so far
    concurrent     \* the apiFetch calls made without awaiting one another

apiVars == <<apiKey, csrfToken, userId, issued, api, enroll, apiCalls, enrollCalls, concurrent>>

\* The session store
VARIABLES
    session,       \* the state fields of useSessionStore
    inits,         \* the initializeSession calls
    loads,         \* the loadSessions calls
    listRequests,  \* number of session-list requests sent
    storage,       \* localStorage: scoop_history_consent and the persisted scoop-session
    created        \* number of createConversation calls so far

sesVars == <<session, storage, inits, loads, listRequests, created>>

Ops == 1..MaxOps

IdleOp ==
    [pc |-> "idle", attempt |-> 0, signal |-> 0, status |-> 0,
     pending |-> <<>>, buffer |-> <<>>, chunks |-> 0, delay |-> 0,
     error |-> NoError, promise |-> "pending", reason |-> NoError,
     fetches |-> 0, reconnecting |-> <<>>, waits |-> <<>>, calls |-> <<>>,
     streamEnd |-> 0, received |-> <<>>, stale |-> <<>>]

\* return / throw out of the outer try: marks the operation as leaving through finally
ReturnNotLeaving(r) == r

Return(r) == [r EXCEPT !.pc = "exit", !.promise = "resolved"]
Throw(r, error) == [r EXCEPT !.pc = "exit", !.promise = "rejected", !.reason = error]

\* catch (error) { ... } of one attempt; ref is abortControllerRef.current.
\* The field `error` keeps the error the current attempt failed with.
CatchNoCeiling(r, error, ref) ==
    LET r1 == [r EXCEPT !.error = error] IN
    IF error.name = "AbortError" THEN Return(r1)
    ELSE IF ~isRetryableError(error) THEN Throw(r1, error)
    ELSE IF r.attempt > maxAttempts THEN Throw(r1, error)
    ELSE LET delayMs == baseDelayMs * Pow(backoffMultiplier, r.attempt - 1)
             r2 == [r1 EXCEPT !.reconnecting = Append(@, <<r.attempt, maxAttempts>>)]
         IN  IF ref = 0 THEN Throw(r2, NullRefError)
             ELSE [r2 EXCEPT !.pc = "backoff", !.delay = delayMs, !.signal = ref]

CatchRetriesAbort(r, error, ref) ==
    LET r1 == [r EXCEPT !.error = error] IN
    IF error.name # "AbortError" /\ ~isRetryableError(error) THEN Throw(r1, error)
    ELSE IF r.attempt >= maxAttempts THEN Throw(r1, error)
    ELSE LET delayMs == baseDelayMs * Pow(backoffMultiplier, r.attempt - 1)
             r2 == [r1 EXCEPT !.reconnecting = Append(@, <<r.attempt, maxAttempts>>)]
         IN  IF ref = 0 THEN Throw(r2, NullRefError)
             ELSE [r2 EXCEPT !.pc = "backoff", !.delay = delayMs, !.signal = ref]

Catch(r, error, ref) ==
    LET r1 == [r EXCEPT !.error = error] IN
    IF error.name = "AbortError" THEN Return(r1)
    ELSE IF ~isRetryableError(error) THEN Throw(r1, error)
    ELSE IF r.attempt >= maxAttempts THEN Throw(r1, error)
    ELSE LET delayMs == baseDelayMs * Pow(backoffMultiplier, r.attempt - 1)
             r2 == [r1 EXCEPT !.reconnecting = Append(@, <<r.attempt, maxAttempts>>)]
         IN  IF ref = 0 THEN Throw(r2, NullRefError)
             ELSE [r2 EXCEPT !.pc = "backoff", !.delay = delayMs, !.signal = ref]

\* top of the for loop body: apiFetch(url, {..., signal: abortControllerRef.current.signal})
BeginAttempt(r, attempt, ref) ==
    LET r1 == [r EXCEPT !.attempt = attempt, !.calls = <<>>, !.chunks = 0,
                        !.delay = 0, !.status = 0, !.error = NoError, !.received = <<>>]
    IN  IF ref = 0 THEN Catch(r1, NullRefError, ref)
        ELSE [r1 EXCEPT !.pc = "fetch", !.signal = ref, !.fetches = @ + 1]

\* finally { ... }
FinallyOnlyOnReturn(r) ==
    [r EXCEPT !.pc = "done", !.streamEnd = IF r.promise = "resolved" THEN @ + 1 ELSE @]

Finally(r) == [r EXCEPT !.pc = "done", !.streamEnd = @ + 1]

\* Commit the step of operation o that leaves it in r
Step(o, r) ==
    IF r.pc = "exit"
    THEN /\ ops' = [ops EXCEPT ![o] = Finally(r)]
         /\ isStreamingRef' = FALSE
         /\ abortControllerRef' = 0
         /\ UNCHANGED <<aborted, started, body, rest, decoder, buffer, calls, phase, apiVars, sesVars>>
    ELSE /\ ops' = [ops EXCEPT ![o] = r]
         /\ UNCHANGED <<abortControllerRef, isStreamingRef, aborted, started,
                        body, rest, decoder, buffer, calls, phase, apiVars, sesVars>>

\* streamMessage(options) up to its first await
streamMessage(P) ==
    /\ started < P.ops
    /\ LET o == started + 1 IN
       /\ started' = o
       /\ aborted' = IF abortControllerRef # 0 THEN aborted \cup {abortControllerRef} ELSE aborted
       /\ abortControllerRef' = o
       /\ isStreamingRef' = TRUE
       /\ ops' = [ops EXCEPT ![o] = BeginAttempt(ops[o], 1, o)]
    /\ UNCHANGED <<body, rest, decoder, buffer, calls, phase, apiVars, sesVars>>

abortStream ==
    /\ started > 0
    /\ aborted' = IF abortControllerRef # 0 THEN aborted \cup {abortControllerRef} ELSE aborted
    /\ abortControllerRef' = 0
    /\ isStreamingRef' = FALSE
    /\ UNCHANGED <<started, ops, body, rest, decoder, buffer, calls, phase, apiVars, sesVars>>

\* The response apiFetch resolved with reaches streamMessage; `stale` keeps what
\* the decoder and the buffer of the attempt before held when it failed
RespondKeepingBuffer(r, status, hasBody, ref) ==
    IF status # 200 THEN Catch(r, HttpError(status), ref)
    ELSE IF ~hasBody THEN Catch(r, NoBodyError, ref)
    ELSE [r EXCEPT !.pc = "read", !.stale = r.pending \o r.buffer]

Respond(r, status, hasBody, ref) ==
    IF status # 200 THEN Catch(r, HttpError(status), ref)
    ELSE IF ~hasBody THEN Catch(r, NoBodyError, ref)
    ELSE [r EXCEPT !.pc = "read", !.pending = <<>>, !.buffer = <<>>,
                   !.stale = r.pending \o r.buffer]

\* apiFetch: the first fetch(url, ...) settles
FetchSettles(o, P) ==
    /\ ops[o].pc = "fetch"
    /\ LET r == ops[o] IN
       IF r.signal \in aborted
       THEN Step(o, Catch(r, AbortError, abortControllerRef))
       ELSE \/ Step(o, Catch(r, FailedToFetch, abortControllerRef))
            \/ \E status \in P.statuses, hasBody \in P.hasBody :
                 /\ hasBody \/ status = 200
                 /\ Step(o, Respond(r, status, hasBody, abortControllerRef))
            \/ \E status \in P.statuses \cap {401, 403} :
                 Step(o, [r EXCEPT !.pc = "recover", !.status = status])

\* apiFetch: the recovery sub-call (enrollApiKey, or response.clone().json() and
\* fetchCsrfToken) settles; it is not given the signal
RecoverySettles(o) ==
    /\ ops[o].pc = "recover"
    /\ LET r == ops[o] IN
       \/ Step(o, [r EXCEPT !.pc = "refetch"])
       \/ Step(o, Respond([r EXCEPT !.status = 0], r.status, TRUE, abortControllerRef))

\* apiFetch: the re-sent request settles; its response is returned as it is
RefetchSettles(o, P) ==
    /\ ops[o].pc = "refetch"
    /\ LET r == [ops[o] EXCEPT !.status = 0] IN
       IF r.signal \in aborted
       THEN Step(o, Catch(r, AbortError, abortControllerRef))
       ELSE \/ Step(o, Catch(r, FailedToFetch, abortControllerRef))
            \/ \E status \in P.statuses, hasBody \in P.hasBody :
                 /\ hasBody \/ status = 200
                 /\ Step(o, Respond(r, status, hasBody, abortControllerRef))

\* await reader.read() settles and the loop body runs up to the next await
ReadSettles(o, P) ==
    /\ ops[o].pc = "read"
    /\ LET r == ops[o] IN
       IF r.signal \in aborted
       THEN Step(o, Catch(r, AbortError, abortControllerRef))
       ELSE \/ Step(o, Catch(r, FailedToFetch, abortControllerRef))
            \/ /\ r.chunks < P.maxChunks
               /\ \E chunk \in P.chunks :
                    LET pass == ReadPass(r.pending, r.buffer, <<"some", chunk>>, FALSE)
                        r1 == [r EXCEPT !.pending = pass.pending, !.buffer = pass.buffer,
                                        !.calls = @ \o pass.calls, !.chunks = @ + 1,
                                        !.received = @ \o chunk]
                    IN  IF pass.threw
                        THEN Step(o, Catch(r1, NullDataError, abortControllerRef))
                        ELSE Step(o, r1)
            \/ LET pass == ReadPass(r.pending, r.buffer, <<"none">>, TRUE)
                   r1 == [r EXCEPT !.pending = pass.pending, !.buffer = pass.buffer,
                                   !.calls = @ \o pass.calls]
               IN  IF pass.threw
                   THEN Step(o, Catch(r1, NullDataError, abortControllerRef))
                   ELSE Step(o, Return(r1))

\* await abortableDelay(delayMs, signal) settles: the timer fires, or the signal's
\* abort event rejects it
DelaySettles(o) ==
    /\ ops[o].pc = "backoff"
    /\ LET r == ops[o] IN
       IF r.signal \in aborted
       THEN Step(o, Return(r))
       ELSE Step(o, BeginAttempt([r EXCEPT !.waits = Append(@, r.delay)],
                                 r.attempt + 1, abortControllerRef))

\* ------------------------------------------------------------------------
\* What the server sends
\* ------------------------------------------------------------------------
Blank == <<NL, NL>>
TextFrame == <<EventPrefix, "text", NL, DataPrefix, ContentOpen, "A", ContentClose>>
DoneFrame == <<EventPrefix, "done", NL, DataPrefix, JsonSession>>
NullFrame == <<EventPrefix, "text", NL, DataPrefix, JsonNull>>
ErrorFrame == <<EventPrefix, "error", NL, DataPrefix, MessageOpen, "A", ContentClose>>
ErrorContentFrame == <<EventPrefix, "error", NL, DataPrefix, ContentOpen, "B", ContentClose>>
ErrorEmptyFrame == <<EventPrefix, "error", NL, DataPrefix, JsonEmpty>>
ErrorNullFrame == <<EventPrefix, "error", NL, DataPrefix, JsonNull>>

\* One operation at a time, every kind of response
SingleChunks ==
    {TextFrame \o Blank, DoneFrame \o Blank, NullFrame \o Blank,
     DoneFrame \o Blank \o TextFrame \o Blank, DoneFrame \o <<NL>>,
     ErrorFrame \o Blank, ErrorContentFrame \o Blank, ErrorEmptyFrame \o Blank,
     ErrorNullFrame \o Blank, <<LeadByte>>}
Single ==
    [ops |-> 1, statuses |-> {200, 400, 401, 403, 404, 500, 502, 503, 504},
     chunks |-> SingleChunks, maxChunks |-> MaxChunks, hasBody |-> BOOLEAN]

\* Overlapping operations on one controller instance
Multi ==
    [ops |-> MaxOps, statuses |-> {200, 401},
     chunks |-> {DoneFrame \o Blank}, maxChunks |-> 1, hasBody |-> {TRUE}]

\* ------------------------------------------------------------------------
\* Credential store, enrollApiKey, fetchCsrfToken and apiFetch
\* ------------------------------------------------------------------------
CSRF_PROTECTED_METHODS == {"POST", "PUT", "DELETE", "PATCH"}

\* (options.method || 'GET').toUpperCase(); "" stands for an absent method
toUpperCase(m) ==
    IF m = "post" THEN "POST" ELSE IF m = "get" THEN "GET" ELSE m
MethodOf(m) == toUpperCase(IF m = "" THEN "GET" ELSE m)
Methods == {"", "GET", "get", "POST", "post", "PUT", "DELETE", "PATCH"}

\* The headers of a request: 0 = header absent
NoHeaders == [key |-> 0, csrf |-> 0]
BuildHeadersCsrfAlways(key, method, token) == [key |-> key, csrf |-> token]

BuildHeaders(key, method, token) ==
    [key |-> key,
     csrf |-> IF method \in CSRF_PROTECTED_METHODS /\ token # 0 THEN token ELSE 0]

\* headers.set('X-CSRF-Token', newToken)
SetCsrfHeaderNot(headers, newToken) == headers

SetCsrfHeader(headers, newToken) == [headers EXCEPT !.csrf = newToken]

\* Bodies of an error response
CsrfExpiredBody == [json |-> TRUE, value |-> "object", code |-> <<"CSRF_", "EXPIRED">>]
CsrfInsideBody == [json |-> TRUE, value |-> "object", code |-> <<"INVALID_", "CSRF_">>]
ForbiddenBody == [json |-> TRUE, value |-> "object", code |-> <<"FORBIDDEN">>]
NoCodeBody == [json |-> TRUE, value |-> "object", code |-> <<>>]
NullBody == [json |-> TRUE, value |-> "null", code |-> <<>>]
HtmlBody == [json |-> FALSE, value |-> "none", code |-> <<>>]
ErrorBodies == {CsrfExpiredBody, CsrfInsideBody, ForbiddenBody, NoCodeBody, NullBody, HtmlBody}

\* code.startsWith(prefix)
StartsWithAnything(code, prefix) == TRUE

StartsWith(code, prefix) == code # <<>> /\ code[1] = prefix

\* errorData = await response.clone().json(); errorData.error?.code?.startsWith('CSRF_')
\* a body that is not JSON, or is null, throws into the empty catch
IsCsrfError(errorBody) ==
    /\ errorBody.json
    /\ errorBody.value = "object"
    /\ StartsWith(errorBody.code, "CSRF_")

\* What fetch() settles with; `of` is the position in api.sent of the request answered
NoResponse == [kind |-> "none", status |-> 0, body |-> NoCodeBody, of |-> 0]
Rejection(of) == [kind |-> "rejected", status |-> 0, body |-> NoCodeBody, of |-> of]
Responses(of) ==
    {Rejection(of)} \cup
    {[kind |-> "response", status |-> s, body |-> NoCodeBody, of |-> of] : s \in {200, 401, 500}} \cup
    {[kind |-> "response", status |-> 403, body |-> b, of |-> of] : b \in ErrorBodies}

\* What the key endpoint and the token endpoint settle with: value is data.key or
\* data.csrf_token, 0 when the body has none
NoReply == [kind |-> "none", ok |-> FALSE, value |-> 0]
Replies ==
    {[kind |-> "rejected", ok |-> FALSE, value |-> 0]} \cup
    {[kind |-> "response", ok |-> ok, value |-> v] :
        ok \in BOOLEAN, v \in {0} \cup (IF issued < MaxIssued THEN {issued + 1} ELSE {})}

\* enrollApiKey after its fetch settled: the key it stores, 0 when it stores none
EnrolledKeyIgnoringStatus(reply) ==
    IF reply.kind = "response" /\ reply.value # 0 THEN reply.value ELSE 0

EnrolledKey(reply) ==
    IF reply.kind # "response" THEN 0
    ELSE IF ~reply.ok THEN 0
    ELSE IF reply.value # 0 THEN reply.value
    ELSE 0

\* if (getApiKey()) return;
AlreadyEnrolledNever(key) == FALSE

AlreadyEnrolled(key) == key # 0

\* fetchCsrfToken after its fetch settled: the token it stores and returns, 0 for null
fetchCsrfToken(reply) ==
    IF reply.kind # "response" THEN 0
    ELSE IF ~reply.ok THEN 0
    ELSE IF reply.value # 0 THEN reply.value
    ELSE 0

\* One transport call, with the store as it was when its headers were built
Sent(kind, method, headers, storedKey, storedCsrf) ==
    [kind |-> kind, method |-> method, key |-> headers.key, csrf |-> headers.csrf,
     storedKey |-> storedKey, storedCsrf |-> storedCsrf]

\* The overlapping apiFetch calls and the methods they are made with
Callers == 1..MaxConcurrent
ConcurrentMethods == {"GET", "POST"}

IdleCall ==
    [pc |-> "idle", method |-> "GET", apiKey |-> 0, headers |-> NoHeaders,
     builtKey |-> 0, response |-> NoResponse, result |-> NoResponse, sent |-> <<>>,
     path |-> "none", reply |-> NoReply, keyAfter |-> 0]

\* return response;
ReturnResponse(c, response) == [c EXCEPT !.pc = "returned", !.result = response]

\* return fetch(url, {...}) : the retry's outcome is the outcome of apiFetch
RetryReturnsOriginal(c, response) == ReturnResponse(c, c.response)

RetryResult(c, response) == ReturnResponse(c, response)

\* await enrollApiKey(userId, backendUrl) inside apiFetch, up to its fetch
StartEnroll(c, storedKey) ==
    [c EXCEPT !.pc = "enroll",
              !.sent = Append(@, Sent("enroll", "POST", NoHeaders, storedKey, 0))]

\* const newKey = getApiKey(); if (newKey) { ... return fetch(url, {..., headers: retryHeaders}) }
RetryWithKey(c, newKey, token) ==
    IF newKey # 0
    THEN LET retryHeaders == BuildHeaders(newKey, c.method, token) IN
         [c EXCEPT !.pc = "refetch", !.keyAfter = newKey,
                   !.sent = Append(@, Sent("request", c.method, retryHeaders, newKey, token))]
    ELSE ReturnResponse([c EXCEPT !.keyAfter = 0], c.response)

CallsOff ==
    /\ api = IdleCall
    /\ enroll = [pc |-> "idle", calls |-> <<>>]
    /\ apiCalls = 0
    /\ enrollCalls = 0
    /\ concurrent = [i \in Callers |-> IdleCall]

ApiOff ==
    /\ apiKey = 0
    /\ csrfToken = 0
    /\ userId = FALSE
    /\ issued = 0
    /\ CallsOff

\* apiFetch(url, options) up to await fetch(url, ...)
apiFetch(m) ==
    /\ api.pc \in {"idle", "returned"}
    /\ apiCalls < MaxCalls
    /\ apiCalls' = apiCalls + 1
    /\ LET method == MethodOf(m)
           headers == BuildHeaders(apiKey, method, csrfToken)
       IN  api' = [IdleCall EXCEPT !.pc = "fetch", !.method = method, !.apiKey = apiKey,
                                   !.headers = headers, !.builtKey = apiKey,
                                   !.sent = <<Sent("request", method, headers, apiKey, csrfToken)>>]
    /\ UNCHANGED <<apiKey, csrfToken, userId, issued, enroll, enrollCalls,
                   concurrent, ctlVars, decVars, sesVars>>

\* apiFetch from the first fetch settling up to its next await or its return, for a
\* store holding key and token; uid tells whether scoop_user_id is stored
AfterFetch(call, response, key, token, uid) ==
    LET c == [call EXCEPT !.response = response] IN
    IF response.kind = "rejected"
    THEN [call |-> ReturnResponse(c, response), apiKey |-> key, csrfToken |-> token]
    ELSE IF response.status = 401 /\ call.apiKey # 0
    THEN [call |-> IF uid THEN StartEnroll([c EXCEPT !.path = "stale key"], 0)
                   ELSE ReturnResponse(c, response),
          apiKey |-> 0, csrfToken |-> token]
    ELSE IF response.status = 401
    THEN [call |-> IF ~uid THEN ReturnResponse(c, response)
                   ELSE IF AlreadyEnrolled(key)
                        THEN RetryWithKey([c EXCEPT !.path = "no key"], key, token)
                        ELSE StartEnroll([c EXCEPT !.path = "no key"], key),
          apiKey |-> key, csrfToken |-> token]
    ELSE IF /\ response.status = 403
            /\ call.method \in CSRF_PROTECTED_METHODS
            /\ IsCsrfError(response.body)
    THEN [call |-> [c EXCEPT !.pc = "csrf", !.path = "csrf",
                             !.sent = Append(@, Sent("csrf", "GET", NoHeaders, key, 0))],
          apiKey |-> key, csrfToken |-> 0]
    ELSE [call |-> ReturnResponse(c, response), apiKey |-> key, csrfToken |-> token]

\* apiFetch from the fetch of its enrollApiKey settling up to the retry or the return
AfterEnroll(call, reply, key, token) ==
    LET enrolled == EnrolledKey(reply)
        stored == IF enrolled # 0 THEN enrolled ELSE key
    IN  [call |-> RetryWithKey([call EXCEPT !.reply = reply], stored, token),
         apiKey |-> stored]

\* apiFetch from the fetch of its fetchCsrfToken settling up to the retry or the return
AfterCsrf(call, reply, key, token) ==
    LET newToken == fetchCsrfToken(reply)
        c == [call EXCEPT !.reply = reply]
    IN  [call |-> IF newToken # 0
                  THEN LET headers == SetCsrfHeader(call.headers, newToken) IN
                       [c EXCEPT !.pc = "refetch", !.headers = headers,
                                 !.sent = Append(@, Sent("request", call.method, headers,
                                                         call.builtKey, newToken))]
                  ELSE ReturnResponse(c, call.response),
         csrfToken |-> IF newToken # 0 THEN newToken ELSE token]

\* The first fetch settles; apiFetch runs up to its next await or its return
ApiFetchSettles ==
    /\ api.pc = "fetch"
    /\ \E response \in Responses(1) :
         LET after == AfterFetch(api, response, apiKey, csrfToken, userId) IN
         /\ api' = after.call
         /\ apiKey' = after.apiKey
         /\ csrfToken' = after.csrfToken
    /\ UNCHANGED <<userId, issued, enroll, apiCalls, enrollCalls, concurrent,
                   ctlVars, decVars, sesVars>>

\* The fetch of enrollApiKey called by apiFetch settles
ApiEnrollSettles ==
    /\ api.pc = "enroll"
    /\ \E reply \in Replies :
         LET after == AfterEnroll(api, reply, apiKey, csrfToken) IN
         /\ api' = after.call
         /\ apiKey' = after.apiKey
         /\ issued' = IF reply.value # 0 THEN reply.value ELSE issued
    /\ UNCHANGED <<csrfToken, userId, enroll, apiCalls, enrollCalls, concurrent,
                   ctlVars, decVars, sesVars>>

\* The fetch of fetchCsrfToken called by apiFetch settles
ApiCsrfSettles ==
    /\ api.pc = "csrf"
    /\ \E reply \in Replies :
         LET after == AfterCsrf(api, reply, apiKey, csrfToken) IN
         /\ api' = after.call
         /\ csrfToken' = after.csrfToken
         /\ issued' = IF reply.value # 0 THEN reply.value ELSE issued
    /\ UNCHANGED <<apiKey, userId, enroll, apiCalls, enrollCalls, concurrent,
                   ctlVars, decVars, sesVars>>

\* The re-sent request settles
ApiRefetchSettles ==
    /\ api.pc = "refetch"
    /\ \E response \in Responses(Len(api.sent)) :
         api' = RetryResult(api, response)
    /\ UNCHANGED <<apiKey, csrfToken, userId, issued, enroll, apiCalls, enrollCalls,
                   concurrent, ctlVars, decVars, sesVars>>

\* enrollApiKey(userId, backendUrl) called by initializeSession, up to its fetch
enrollApiKey ==
    /\ enroll.pc \in {"idle", "returned"}
    /\ enrollCalls < MaxEnrolls
    /\ enrollCalls' = enrollCalls + 1
    /\ enroll' =
         IF AlreadyEnrolled(apiKey)
         THEN [pc |-> "returned",
               calls |-> Append(enroll.calls, [had |-> apiKey, net |-> 0, reply |-> NoReply,
                                               stored |-> 0, threw |-> FALSE])]
         ELSE [pc |-> "fetch",
               calls |-> Append(enroll.calls, [had |-> apiKey, net |-> 1, reply |-> NoReply,
                                               stored |-> 0, threw |-> FALSE])]
    /\ UNCHANGED <<apiKey, csrfToken, userId, issued, api, apiCalls, concurrent,
                   ctlVars, decVars, sesVars>>

\* Its fetch settles: the try block runs to the end or into the catch
EnrollSettles ==
    /\ enroll.pc = "fetch"
    /\ \E reply \in Replies :
         LET key == EnrolledKey(reply)
             n == Len(enroll.calls)
         IN  /\ apiKey' = IF key # 0 THEN key ELSE apiKey
             /\ issued' = IF reply.value # 0 THEN reply.value ELSE issued
             /\ enroll' = [pc |-> "returned",
                           calls |-> [enroll.calls EXCEPT ![n].reply = reply, ![n].stored = key]]
    /\ UNCHANGED <<csrfToken, userId, api, apiCalls, enrollCalls, concurrent,
                   ctlVars, decVars, sesVars>>

\* The browser's storage when the page loads
InitApi ==
    /\ issued = 1
    /\ apiKey \in {0, 1}
    /\ csrfToken \in {0, 1}
    /\ userId \in BOOLEAN
    /\ CallsOff

NextApi ==
    \/ \E m \in Methods : apiFetch(m)
    \/ ApiFetchSettles
    \/ ApiEnrollSettles
    \/ ApiCsrfSettles
    \/ ApiRefetchSettles
    \/ enrollApiKey
    \/ EnrollSettles

\* apiFetch calls that overlap: call i runs up to await fetch(url, ...)
apiFetchConcurrently(i, m) ==
    /\ concurrent[i].pc = "idle"
    /\ LET method == MethodOf(m)
           headers == BuildHeaders(apiKey, method, csrfToken)
       IN  concurrent' =
             [concurrent EXCEPT ![i] =
                [IdleCall EXCEPT !.pc = "fetch", !.method = method, !.apiKey = apiKey,
                                 !.headers = headers, !.builtKey = apiKey,
                                 !.sent = <<Sent("request", method, headers, apiKey, csrfToken)>>]]
    /\ UNCHANGED <<apiKey, csrfToken, userId, issued, api, enroll, apiCalls, enrollCalls,
                   ctlVars, decVars, sesVars>>

ConcurrentFetchSettles(i) ==
    /\ concurrent[i].pc = "fetch"
    /\ \E response \in Responses(1) :
         LET after == AfterFetch(concurrent[i], response, apiKey, csrfToken, userId) IN
         /\ concurrent' = [concurrent EXCEPT ![i] = after.call]
         /\ apiKey' = after.apiKey
         /\ csrfToken' = after.csrfToken
    /\ UNCHANGED <<userId, issued, api, enroll, apiCalls, enrollCalls, ctlVars, decVars, sesVars>>

ConcurrentEnrollSettles(i) ==
    /\ concurrent[i].pc = "enroll"
    /\ \E reply \in Replies :
         LET after == AfterEnroll(concurrent[i], reply, apiKey, csrfToken) IN
         /\ concurrent' = [concurrent EXCEPT ![i] = after.call]
         /\ apiKey' = after.apiKey
         /\ issued' = IF reply.value # 0 THEN reply.value ELSE issued
    /\ UNCHANGED <<csrfToken, userId, api, enroll, apiCalls, enrollCalls, ctlVars, decVars, sesVars>>

ConcurrentCsrfSettles(i) ==
    /\ concurrent[i].pc = "csrf"
    /\ \E reply \in Replies :
         LET after == AfterCsrf(concurrent[i], reply, apiKey, csrfToken) IN
         /\ concurrent' = [concurrent EXCEPT ![i] = after.call]
         /\ csrfToken' = after.csrfToken
         /\ issued' = IF reply.value # 0 THEN reply.value ELSE issued
    /\ UNCHANGED <<apiKey, userId, api, enroll, apiCalls, enrollCalls, ctlVars, decVars, sesVars>>

ConcurrentRefetchSettles(i) ==
    /\ concurrent[i].pc = "refetch"
    /\ \E response \in Responses(Len(concurrent[i].sent)) :
         concurrent' = [concurrent EXCEPT ![i] = RetryResult(concurrent[i], response)]
    /\ UNCHANGED <<apiKey, csrfToken, userId, issued, api, enroll, apiCalls, enrollCalls,
                   ctlVars, decVars, sesVars>>

NextConcurrent ==
    \/ \E i \in Callers, m \in ConcurrentMethods : apiFetchConcurrently(i, m)
    \/ \E i \in Callers : ConcurrentFetchSettles(i)
    \/ \E i \in Callers : ConcurrentEnrollSettles(i)
    \/ \E i \in Callers : ConcurrentCsrfSettles(i)
    \/ \E i \in Callers : ConcurrentRefetchSettles(i)

\* ------------------------------------------------------------------------
\* useSessionStore: initializeSession and loadSessions
\* ------------------------------------------------------------------------
Inits == 1..MaxInits
Loads == 1..MaxLoads

\* Initial State of the store
InitialState ==
    [conversations |-> <<>>, activeId |-> <<>>, userId |-> "", consent |-> "true",
     isSessionReady |-> FALSE, sessionsLoaded |-> FALSE]

\* partialize: the fields the persist middleware writes to localStorage
partialize(state) ==
    [userId |-> state.userId, consent |-> state.consent, activeId |-> state.activeId]

\* useSessionStore.persist.rehydrate()
rehydrate(state, persisted) ==
    [state EXCEPT !.userId = persisted.userId, !.consent = persisted.consent,
                  !.activeId = persisted.activeId]

\* set({ isSessionReady: true }, false, 'initializeSession/ready')
ReadyNever(state) == state

Ready(state) == [state EXCEPT !.isSessionReady = TRUE]

\* The guards of loadSessions: true when the request is to be sent
ShouldLoadUngated(state) ==
    /\ state.consent = "true"
    /\ state.userId # ""
    /\ ~state.sessionsLoaded

ShouldLoad(state) ==
    IF state.consent # "true" THEN FALSE
    ELSE IF state.userId = "" \/ state.sessionsLoaded \/ ~state.isSessionReady THEN FALSE
    ELSE TRUE

SesOff ==
    /\ session = InitialState
    /\ storage = [consent |-> "", persisted |-> partialize(InitialState)]
    /\ inits = [i \in Inits |-> [pc |-> "idle", outcome |-> "none"]]
    /\ loads = [j \in Loads |-> [pc |-> "idle", ready |-> FALSE, before |-> <<>>]]
    /\ listRequests = 0
    /\ created = 0

\* Every change of the store is written through by the persist middleware
Set(state) ==
    /\ session' = state
    /\ storage' = [storage EXCEPT !.persisted = partialize(state)]

\* initializeSession() up to await enrollApiKey(currentUserId, BACKEND_URL)
initializeSession(i) ==
    /\ inits[i].pc = "idle"
    /\ \A k \in Inits : k < i => inits[k].pc # "idle"
    /\ LET hydrated == rehydrate(session, storage.persisted)
           hasConsent == IF storage.consent = "" THEN "true" ELSE storage.consent
           state == [hydrated EXCEPT !.userId = "widget", !.consent = hasConsent]
       IN  /\ session' = state
           /\ storage' = [consent |-> hasConsent, persisted |-> partialize(state)]
    /\ userId' = TRUE
    /\ inits' = [inits EXCEPT ![i].pc = "enrolling"]
    /\ UNCHANGED <<loads, listRequests, created, apiKey, csrfToken, issued, api, enroll,
                   apiCalls, enrollCalls, concurrent, ctlVars, decVars>>

\* enrollApiKey settles: catch on rejection, then finally
InitEnrollSettles(i) ==
    /\ inits[i].pc = "enrolling"
    /\ \E outcome \in {"fulfilled", "rejected"} :
         inits' = [inits EXCEPT ![i] = [pc |-> "done", outcome |-> outcome]]
    /\ Set(Ready(session))
    /\ UNCHANGED <<loads, listRequests, created, apiVars, ctlVars, decVars>>

\* loadSessions() up to await apiFetch(...), or to its early return
loadSessions(j) ==
    /\ loads[j].pc = "idle"
    /\ \A k \in Loads : k < j => loads[k].pc # "idle"
    /\ IF ShouldLoad(session)
       THEN /\ loads' = [loads EXCEPT ![j] = [pc |-> "fetch", ready |-> session.isSessionReady,
                                              before |-> session.conversations]]
            /\ listRequests' = listRequests + 1
       ELSE /\ loads' = [loads EXCEPT ![j] = [pc |-> "skipped", ready |-> session.isSessionReady,
                                              before |-> session.conversations]]
            /\ UNCHANGED listRequests
    /\ UNCHANGED <<session, storage, inits, created, apiVars, ctlVars, decVars>>

\* The session-list request settles: sessions is data.sessions
SessionLists == {<<>>, << <<"S", 1>> >>, << <<"S", 1>>, <<"S", 2>> >>}
LoadSettles(j) ==
    /\ loads[j].pc = "fetch"
    /\ loads' = [loads EXCEPT ![j].pc = "returned"]
    /\ \/ Set([session EXCEPT !.sessionsLoaded = TRUE])        \* apiFetch or res.json() rejected
       \/ UNCHANGED <<session, storage>>                         \* !res.ok
       \/ \E sessions \in SessionLists :
            IF sessions # <<>>
            THEN Set([session EXCEPT
                        !.conversations = sessions,
                        !.activeId = IF @ # <<>> /\ \A n \in 1..Len(sessions) : sessions[n] # @
                                     THEN <<>> ELSE @,
                        !.sessionsLoaded = TRUE])
            ELSE Set([session EXCEPT !.activeId = <<>>, !.sessionsLoaded = TRUE])
    /\ UNCHANGED <<inits, listRequests, created, apiVars, ctlVars, decVars>>

\* createConversation(): generateId() yields an id no conversation has yet
createConversation ==
    /\ created < MaxCreated
    /\ created' = created + 1
    /\ LET newId == <<"L", created + 1>> IN
       Set([session EXCEPT !.conversations = <<newId>> \o @, !.activeId = newId])
    /\ UNCHANGED <<inits, loads, listRequests, apiVars, ctlVars, decVars>>

handleAcceptConsent ==
    /\ session' = [session EXCEPT !.consent = "true"]
    /\ storage' = [consent |-> "true", persisted |-> partialize(session')]
    /\ UNCHANGED <<inits, loads, listRequests, created, apiVars, ctlVars, decVars>>

handleRejectConsent ==
    /\ session' = [session EXCEPT !.consent = "false"]
    /\ storage' = [consent |-> "false", persisted |-> partialize(session')]
    /\ UNCHANGED <<inits, loads, listRequests, created, apiVars, ctlVars, decVars>>

\* The page loads with what an earlier visit left in localStorage
InitSession ==
    /\ session = InitialState
    /\ storage \in [consent : {"", "true", "false"},
                    persisted : [userId : {"", "widget"}, consent : {"true", "false"},
                                 activeId : {<<>>, <<"S", 1>>}]]
    /\ userId \in BOOLEAN
    /\ apiKey = 0
    /\ csrfToken = 0
    /\ issued = 0
    /\ CallsOff
    /\ inits = [i \in Inits |-> [pc |-> "idle", outcome |-> "none"]]
    /\ loads = [j \in Loads |-> [pc |-> "idle", ready |-> FALSE, before |-> <<>>]]
    /\ listRequests = 0
    /\ created = 0

NextSession ==
    \/ \E i \in Inits : initializeSession(i)
    \/ \E i \in Inits : InitEnrollSettles(i)
    \/ \E j \in Loads : loadSessions(j)
    \/ \E j \in Loads : LoadSettles(j)
    \/ createConversation
    \/ handleAcceptConsent
    \/ handleRejectConsent

\* ------------------------------------------------------------------------
\* The read loop of one attempt applied to a chunked response body
\* ------------------------------------------------------------------------
vars == <<ctlVars, decVars, apiVars, sesVars>>

GeorgianFrame ==
    <<EventPrefix, "text", NL, DataPrefix, ContentOpen, LeadByte, ContByte, ContByte, ContentClose>>
NoDataFrame == <<EventPrefix, "text", NL, "data:", ContentOpen, "A", ContentClose>>
BadJsonFrame == <<EventPrefix, "text", NL, DataPrefix, JsonBad>>
GoodFrames == {GeorgianFrame, DoneFrame, TextFrame}
MalformedFrames == {NoDataFrame, BadJsonFrame}
BodyFrames == {frame \o Blank : frame \in GoodFrames \cup MalformedFrames}

RECURSIVE BodiesOf(_)
BodiesOf(n) ==
    IF n = 0 THEN {<<>>}
    ELSE LET shorter == BodiesOf(n - 1) IN
         shorter \cup {b \o f : b \in shorter, f \in BodyFrames}

\* Every way to cut s into at most three chunks
Cuts(s) == {c \in (0..Len(s)) \X (0..Len(s)) : c[1] <= c[2]}
Chunkings(s) ==
    {<<s>>} \cup
    {<<SubSeq(s, 1, c[1]), SubSeq(s, c[1] + 1, c[2]), SubSeq(s, c[2] + 1, Len(s))>> :
        c \in Cuts(s)}

DecodeOff ==
    /\ body = <<>>
    /\ rest = <<>>
    /\ decoder = <<>>
    /\ buffer = <<>>
    /\ calls = <<>>
    /\ phase = "off"

CtlOff ==
    /\ abortControllerRef = 0
    /\ isStreamingRef = FALSE
    /\ aborted = {}
    /\ started = 0
    /\ ops = [o \in Ops |-> IdleOp]

InitDecode ==
    /\ CtlOff
    /\ ApiOff
    /\ SesOff
    /\ body \in BodiesOf(MaxBodyLen) \ {<<>>}
    /\ rest \in Chunkings(body)
    /\ decoder = <<>>
    /\ buffer = <<>>
    /\ calls = <<>>
    /\ phase = "reading"

\* reader.read() delivers the next chunk
ReadChunk ==
    /\ phase = "reading"
    /\ rest # <<>>
    /\ LET pass == ReadPass(decoder, buffer, <<"some", Head(rest)>>, FALSE) IN
       /\ decoder' = pass.pending
       /\ buffer' = pass.buffer
       /\ calls' = calls \o pass.calls
       /\ phase' = IF pass.threw THEN "threw" ELSE "reading"
    /\ rest' = Tail(rest)
    /\ UNCHANGED <<body, ctlVars, apiVars, sesVars>>

\* reader.read() reports done
ReadDone ==
    /\ phase = "reading"
    /\ rest = <<>>
    /\ LET pass == ReadPass(decoder, buffer, <<"none">>, TRUE) IN
       /\ decoder' = pass.pending
       /\ buffer' = pass.buffer
       /\ calls' = calls \o pass.calls
       /\ phase' = IF pass.threw THEN "threw" ELSE "ended"
    /\ UNCHANGED <<body, rest, ctlVars, apiVars, sesVars>>

NextDecode == ReadChunk \/ ReadDone

SpecDecode == InitDecode /\ [][NextDecode]_vars

\* The read loop applied to one text or tip frame
RECURSIVE SeqsUpTo(_, _)
SeqsUpTo(S, n) ==
    IF n = 0 THEN {<<>>}
    ELSE LET shorter == SeqsUpTo(S, n - 1) IN
         shorter \cup {Append(q, c) : q \in shorter, c \in S}

TipChars == {"A", TipOpen, TipClose}
TextFrameOf(content) ==
    <<EventPrefix, "text", NL, DataPrefix, ContentOpen>> \o content \o <<ContentClose>>
TipFrameOf(open, tipText) ==
    <<EventPrefix, "tip", NL, DataPrefix, open>> \o tipText \o <<ContentClose>>
TipBodies ==
    {TextFrameOf(content) \o Blank : content \in SeqsUpTo(TipChars, MaxTipLen)} \cup
    {TipFrameOf(open, tipText) \o Blank :
        open \in {TextOpen, ContentOpen}, tipText \in SeqsUpTo(TipChars, 2)}

InitTip ==
    /\ CtlOff
    /\ ApiOff
    /\ SesOff
    /\ body \in TipBodies
    /\ rest = <<body>>
    /\ decoder = <<>>
    /\ buffer = <<>>
    /\ calls = <<>>
    /\ phase = "reading"

SpecTip == InitTip /\ [][NextDecode]_vars

\* The read loop applied to bodies that end without a blank line
UnterminatedFrame == <<EventPrefix, "text", NL, DataPrefix, ContentOpen, "B", ContentClose>>
Tails == {UnterminatedFrame, UnterminatedFrame \o <<NL>>, <<EventPrefix, "text">>}
InitTail ==
    /\ CtlOff
    /\ ApiOff
    /\ SesOff
    /\ body \in {b \o t : b \in BodiesOf(MaxBodyLen), t \in Tails}
    /\ rest \in Chunkings(body)
    /\ decoder = <<>>
    /\ buffer = <<>>
    /\ calls = <<>>
    /\ phase = "reading"

SpecTail == InitTail /\ [][NextDecode]_vars

Init == CtlOff /\ DecodeOff /\ ApiOff /\ SesOff

NextOf(P) ==
    \/ streamMessage(P)
    \/ abortStream
    \/ \E o \in Ops : FetchSettles(o, P)
    \/ \E o \in Ops : RecoverySettles(o)
    \/ \E o \in Ops : RefetchSettles(o, P)
    \/ \E o \in Ops : ReadSettles(o, P)
    \/ \E o \in Ops : DelaySettles(o)

Next == NextOf(Single)
NextMulti == NextOf(Multi)

Spec == Init /\ [][Next]_vars
SpecMulti == Init /\ [][NextMulti]_vars

\* A pending transport call, stream read or backoff timer settles in the end; the
\* calls of streamMessage and abortStream are the caller's and may never come
Settles(o, P) ==
    \/ FetchSettles(o, P)
    \/ RecoverySettles(o)
    \/ RefetchSettles(o, P)
    \/ ReadSettles(o, P)
    \/ DelaySettles(o)

Settling(P) == \A o \in Ops : WF_vars(Settles(o, P))

\* One operation superseding another, every pending call settling in the end
Overlap == [Multi EXCEPT !.ops = MaxOverlap]
NextOverlap == NextOf(Overlap)
SpecFair == Init /\ [][NextOverlap]_vars /\ Settling(Overlap)

\* apiFetch calls one after another, with the enrollApiKey calls of initializeSession
InitApiCalls == CtlOff /\ DecodeOff /\ SesOff /\ InitApi
SpecApi == InitApiCalls /\ [][NextApi]_vars

\* apiFetch calls that overlap
SpecConcurrent == InitApiCalls /\ [][NextConcurrent]_vars

\* The session store
InitSessionStore == CtlOff /\ DecodeOff /\ InitSession
SpecSession == InitSessionStore /\ [][NextSession]_vars

\* ------------------------------------------------------------------------
\* Properties
\* ------------------------------------------------------------------------
InFlight(o) == ops[o].pc \notin {"idle", "done"}

\* A network-level rejection or an HTTP 502, 503 or 504
IsTransient(e) ==
    \/ e.name = "TypeError" /\ e.message = <<"Failed to fetch">>
    \/ e.name = "Error" /\ e.message[1] = "HTTP " /\ e.message[2] \in {502, 503, 504}

Failed(e) == e.name \notin {"none", "AbortError"}

\* C1: onStreamEnd is invoked exactly once per streamMessage call, whatever the
\* outcome: never before the operation exits, and once when it has exited.
C1_StreamEndExactlyOnce ==
    \A o \in Ops :
        /\ ops[o].pc = "done" => ops[o].streamEnd = 1
        /\ ops[o].pc # "done" => ops[o].streamEnd = 0

\* C1 witness: an operation that was superseded has exited and so has one whose
\* promise rejected.
C1_Witness ==
    \E o1, o2 \in Ops :
        /\ o1 < o2
        /\ ops[o1].pc = "done" /\ o1 \in aborted /\ ops[o1].streamEnd = 1
        /\ ops[o2].pc = "done" /\ ops[o2].promise = "rejected" /\ ops[o2].streamEnd = 1

\* C2: at most one operation is in flight with a non-cancelled cancellation token.
C2_AtMostOneLive ==
    Cardinality({o \in Ops : InFlight(o) /\ o \notin aborted}) <= 1

\* C3: an operation whose token was cancelled resolves; its promise never rejects.
C3_CancellationSilent ==
    \A o \in Ops :
        (ops[o].pc = "done" /\ o \in aborted) => ops[o].promise = "resolved"

\* C4: abort() cancels the token of every operation in flight, and isStreaming
\* reads false when abort() returns.
C4_AbortCancelsInFlight ==
    [][abortStream =>
          /\ \A o \in Ops : InFlight(o) => o \in aborted'
          /\ isStreamingRef' = FALSE]_vars

\* C5: an operation makes 1 to 3 transport calls; the k-th failed attempt (k = 1, 2),
\* when transient, is followed by exactly one onReconnecting(k, 3) and a wait of
\* 1000 * 2^(k-1) ms before attempt k+1; no onReconnecting follows attempt 3.
C5_BackoffSchedule ==
    \A o \in Ops :
        LET r == ops[o] IN
        /\ r.pc # "idle" => r.fetches \in 1..3
        /\ Len(r.reconnecting) <= 2
        /\ \A k \in 1..Len(r.reconnecting) : r.reconnecting[k] = <<k, 3>>
        /\ \A k \in 1..Len(r.waits) : r.waits[k] = 1000 * Pow(2, k - 1)
        /\ r.pc \in {"fetch", "recover", "refetch", "read"} =>
              /\ r.fetches = r.attempt
              /\ Len(r.reconnecting) = r.attempt - 1
              /\ Len(r.waits) = r.attempt - 1
        /\ r.pc = "backoff" =>
              /\ r.attempt \in {1, 2}
              /\ Len(r.reconnecting) = r.attempt
              /\ r.delay = 1000 * Pow(2, r.attempt - 1)
        /\ (r.pc = "done" /\ IsTransient(r.error)) =>
              Len(r.reconnecting) = (IF r.attempt < 3 THEN r.attempt ELSE 2)

\* C5 witness: three transient failures in a row
C5_Witness ==
    \E o \in Ops :
        /\ ops[o].pc = "done" /\ ops[o].promise = "rejected"
        /\ ops[o].fetches = 3
        /\ ops[o].reconnecting = << <<1, 3>>, <<2, 3>> >>
        /\ ops[o].waits = <<1000, 2000>>

\* C6: the promise rejects exactly when the last attempt failed with a
\* non-retryable error, or failed as the third attempt; it rejects with that error.
C6_RejectsIffFinalFailure ==
    \A o \in Ops :
        LET r == ops[o] IN
        r.pc = "done" =>
            /\ r.promise = "rejected" <=>
                  (Failed(r.error) /\ (~IsTransient(r.error) \/ r.attempt = 3))
            /\ r.promise = "rejected" => r.reason = r.error

\* C7: only a network-level rejection or an HTTP 502/503/504 is retried; any other
\* failure ends the operation without an onReconnecting call.
C7_RetryOnlyTransient ==
    \A o \in Ops :
        LET r == ops[o] IN
        (Failed(r.error) /\ ~IsTransient(r.error)) =>
            /\ r.pc = "done"
            /\ Len(r.reconnecting) = r.attempt - 1

\* C8: within one attempt nothing is dispatched after a done frame.
C8_NothingAfterDone ==
    \A o \in Ops :
        \A i \in 1..Len(ops[o].calls) :
            ops[o].calls[i].handler = "onDone" => i = Len(ops[o].calls)

\* C9: once onDone was called in an attempt, the operation issues no further
\* transport call and its promise does not reject.
C9_NoAttemptAfterDone ==
    [][\A o \in Ops :
          (\E i \in 1..Len(ops[o].calls) : ops[o].calls[i].handler = "onDone") =>
              /\ ops'[o].fetches = ops[o].fetches
              /\ ops'[o].promise # "rejected"]_vars

\* The calls made when the whole body arrives as one chunk
WholeCalls(b) ==
    LET first == ReadPass(<<>>, <<>>, <<"some", b>>, FALSE)
        last == ReadPass(first.pending, first.buffer, <<"none">>, TRUE)
    IN  IF first.threw THEN first.calls ELSE first.calls \o last.calls

\* C10: whatever the chunking, the frames dispatched are those dispatched when
\* the whole body arrives as one chunk.
C10_ChunkingIndependent ==
    phase = "ended" => calls = WholeCalls(body)

\* The message the server reported in an error frame
ServerMessage(frame) ==
    IF frame = ErrorFrame THEN <<"A">>
    ELSE IF frame = ErrorContentFrame THEN <<"B">>
    ELSE ErrorFallback

\* C11: an error frame received in a 200 response calls onError once with the
\* server's message (message, else content, else the fallback); it raises no error
\* in the attempt, so nothing is retried on its account, and when the stream then
\* ends the promise resolves.
C11_InBandError ==
    \A o \in Ops :
        \A frame \in {ErrorFrame, ErrorContentFrame, ErrorEmptyFrame, ErrorNullFrame} :
            LET r == ops[o] IN
            r.received = frame \o Blank =>
                /\ r.calls = <<Call("onError", ServerMessage(frame))>>
                /\ r.error \in {NoError, AbortError, FailedToFetch}
                /\ (r.pc = "done" /\ r.error = NoError) => r.promise = "resolved"

\* The requests and the recovery sub-calls one apiFetch call has sent
Requests(c) == SelectSeq(c.sent, LAMBDA t : t.kind = "request")
SubCalls(c) == SelectSeq(c.sent, LAMBDA t : t.kind # "request")

\* C12: one apiFetch call sends the request at most twice and makes at most one
\* recovery sub-call, at most three transport calls in all; what the re-sent
\* request settles with is what apiFetch settles with, whatever its status.
C12_AtMostOneRecovery ==
    /\ Len(Requests(api)) <= 2
    /\ Len(SubCalls(api)) <= 1
    /\ Len(api.sent) <= 3
    /\ api.pc = "refetch" => Len(Requests(api)) = 2
    /\ (api.pc = "returned" /\ Len(Requests(api)) = 2) =>
          /\ api.result.kind \in {"response", "rejected"}
          /\ api.result.of = Len(api.sent)

\* C12 witness: original, enrollment, retry; the retry is answered 401 and that
\* response is returned
C12_Witness ==
    /\ api.pc = "returned"
    /\ Len(api.sent) = 3
    /\ api.sent[2].kind = "enroll"
    /\ api.result.kind = "response"
    /\ api.result.status = 401
    /\ api.result.of = 3

\* The recovery sub-call of the apiFetch call obtained nothing
NothingObtained(reply) == ~(reply.kind = "response" /\ reply.ok /\ reply.value # 0)

\* apiFetch returned the first response and sent the request once
Unrecovered(c) ==
    /\ c.result = c.response
    /\ c.result.of = 1
    /\ Len(Requests(c)) = 1

\* C13: when a recovery cannot complete, apiFetch returns the original response
\* and does not re-send: a 401 with no stored user id or with no key in the store
\* after enrollment; a 403 whose body is not JSON, whose error code does not start
\* with CSRF_, or for which no token was obtained.
C13_FailedRecoveryReturnsOriginal ==
    (api.pc = "returned" /\ api.response.kind = "response") =>
        LET r == api.response IN
        /\ (r.status = 401 /\ (~userId \/ (api.reply.kind # "none" /\ api.keyAfter = 0))) =>
              Unrecovered(api)
        /\ (/\ r.status = 403
            /\ api.method \in {"POST", "PUT", "DELETE", "PATCH"}
            /\ \/ ~r.body.json
               \/ r.body.value # "object"
               \/ r.body.code = <<>>
               \/ r.body.code[1] # "CSRF_"
               \/ (api.reply.kind # "none" /\ NothingObtained(api.reply))) =>
              Unrecovered(api)

\* C13 witness: a stale key, a 401, an enrollment that fails
C13_Witness ==
    /\ api.pc = "returned"
    /\ api.apiKey # 0
    /\ api.response.status = 401
    /\ api.reply.kind = "response"
    /\ ~api.reply.ok
    /\ api.result = api.response
    /\ Len(api.sent) = 2

\* A 403 response to a state-changing request whose error code starts with CSRF_
CsrfRejected(c) ==
    /\ c.response.kind = "response"
    /\ c.response.status = 403
    /\ c.method \in {"POST", "PUT", "DELETE", "PATCH"}
    /\ c.response.body.json
    /\ c.response.body.value = "object"
    /\ c.response.body.code # <<>>
    /\ c.response.body.code[1] = "CSRF_"

C15_HeaderInjection ==
    \A n \in 1..Len(api.sent) :
        LET t == api.sent[n] IN
        t.kind = "request" =>
            /\ t.key = t.storedKey
            /\ t.csrf = (IF t.method \in {"POST", "PUT", "DELETE", "PATCH"}
                         THEN t.storedCsrf ELSE 0)
            /\ t.method = "GET" => t.csrf = 0

\* C15 witness: a re-sent request that carries a fresh key and a token
C15_Witness ==
    /\ Len(api.sent) = 3
    /\ api.sent[3].kind = "request"
    /\ api.sent[3].key # 0
    /\ api.sent[3].key # api.sent[1].key
    /\ api.sent[3].csrf # 0

\* C16: enrollApiKey called while a key is stored sends nothing and leaves the key
\* as it is; of two calls in a row, the first of which stored a key, only the
\* first reached the network.
C16_EnrollIdempotent ==
    [][/\ (enrollCalls' = enrollCalls + 1 /\ apiKey # 0) =>
             /\ enroll'.pc = "returned"
             /\ enroll'.calls[Len(enroll'.calls)].net = 0
             /\ apiKey' = apiKey
       /\ \A n \in 2..Len(enroll'.calls) :
             (/\ enroll'.calls[n - 1].stored # 0
              /\ enroll'.calls[n].had = enroll'.calls[n - 1].stored) =>
                 enroll'.calls[n - 1].net + enroll'.calls[n].net = 1]_vars

\* C16 witness: two calls in a row, the first stored a key
C16_Witness ==
    /\ enroll.pc = "returned"
    /\ Len(enroll.calls) = 2
    /\ enroll.calls[1].stored # 0
    /\ enroll.calls[2].had = enroll.calls[1].stored
    /\ enroll.calls[2].net = 0

\* The enrollment request was rejected by the network or answered with a non-2xx status
EnrollmentFailed(reply) ==
    \/ reply.kind = "rejected"
    \/ reply.kind = "response" /\ ~reply.ok

\* C17: when its request is rejected or answered with a non-2xx status,
\* enrollApiKey returns normally and stores no key.
C17_EnrollNeverThrows ==
    [][/\ (enroll.pc = "fetch" /\ enroll'.pc = "returned"
           /\ EnrollmentFailed(enroll'.calls[Len(enroll'.calls)].reply)) =>
             /\ ~enroll'.calls[Len(enroll'.calls)].threw
             /\ apiKey' = apiKey
       /\ (api.pc = "enroll" /\ api'.pc # "enroll" /\ EnrollmentFailed(api'.reply)) =>
             apiKey' = apiKey]_vars

\* C17 witness: the request was answered with a non-2xx status whose body holds a
\* key; the call has returned and no key is stored
C17_Witness ==
    /\ enroll.pc = "returned"
    /\ enroll.calls # <<>>
    /\ enroll.calls[Len(enroll.calls)].reply.kind = "response"
    /\ ~enroll.calls[Len(enroll.calls)].reply.ok
    /\ enroll.calls[Len(enroll.calls)].reply.value # 0
    /\ apiKey = 0

\* C18: a state-changing request carries X-CSRF-Token, the token being fetched
\* first when none is stored; after a CSRF 403 the token is fetched once.
C18_LazyCsrfToken ==
    /\ \A n \in 1..Len(api.sent) :
          (/\ api.sent[n].kind = "request"
           /\ api.sent[n].method \in {"POST", "PUT", "DELETE", "PATCH"}) =>
              api.sent[n].csrf # 0
    /\ CsrfRejected(api) => Len(SubCalls(api)) = 1

C20_LoadGated ==
    [][/\ \A j \in Loads :
             (loads[j].pc = "idle" /\ loads'[j].pc # "idle" /\ ~session.isSessionReady) =>
                 /\ loads'[j].pc = "skipped"
                 /\ listRequests' = listRequests
                 /\ session' = session
       /\ listRequests' > 0 => session'.isSessionReady]_vars

\* C20 witness: only the gate held the call back
C20_Witness ==
    /\ \E j \in Loads : loads[j].pc = "skipped" /\ ~loads[j].ready
    /\ ~session.isSessionReady
    /\ session.consent = "true"
    /\ session.userId # ""
    /\ ~session.sessionsLoaded
    /\ listRequests = 0

\* The text with every [TIP]...[/TIP] block removed: a block runs from the first
\* [TIP] to the first [/TIP] after it
RECURSIVE WithoutTipBlocks(_)
WithoutTipBlocks(s) ==
    LET opens == {i \in 1..Len(s) : s[i] = TipOpen /\ \E j \in (i + 1)..Len(s) : s[j] = TipClose}
    IN  IF opens = {} THEN s
        ELSE LET i == CHOOSE k \in opens : \A m \in opens : k <= m
                 j == CHOOSE k \in (i + 1)..Len(s) :
                        /\ s[k] = TipClose
                        /\ \A m \in (i + 1)..(k - 1) : s[m] # TipClose
             IN  SubSeq(s, 1, i - 1) \o WithoutTipBlocks(SubSeq(s, j + 1, Len(s)))

\* C21: onText receives the content of a text frame with every [TIP]...[/TIP] block
\* removed and the rest unchanged; onTip receives "\n\n[TIP]\n" + t + "\n[/TIP]" for
\* the text t of a tip frame.
C21_TipRoundTrip ==
    phase = "ended" =>
        /\ \A content \in SeqsUpTo(TipChars, MaxTipLen) \ {<<>>} :
              body = TextFrameOf(content) \o Blank =>
                  calls = <<Call("onText", WithoutTipBlocks(content))>>
        /\ \A open \in {TextOpen, ContentOpen}, t \in SeqsUpTo(TipChars, 2) \ {<<>>} :
              body = TipFrameOf(open, t) \o Blank =>
                  calls = <<Call("onTip", <<NL, NL, TipOpen, NL>> \o t \o <<NL, TipClose>>)>>

\* C21 witness: two blocks around a letter are removed and the letter is kept
C21_Witness ==
    /\ phase = "ended"
    /\ body = TextFrameOf(<<TipOpen, TipClose, "A", TipOpen, TipClose>>) \o Blank
    /\ calls = <<Call("onText", <<"A">>)>>

\* C22: an attempt starts with a fresh decoder and an empty buffer: whatever bytes
\* or partial frame the attempt before left behind, nothing is held or dispatched
\* before the first chunk, and a frame received alone is dispatched as it is.
C22_FreshDecoderPerAttempt ==
    \A o \in Ops :
        LET r == ops[o] IN
        /\ (r.pc = "read" /\ r.chunks = 0) =>
              (r.pending = <<>> /\ r.buffer = <<>> /\ r.calls = <<>>)
        /\ (r.pc # "fetch" /\ r.received = TextFrame \o Blank) =>
              r.calls = <<Call("onText", <<"A">>)>>

\* C22 witness: the attempt before failed holding a partial frame, and the text
\* frame of this attempt was dispatched alone
C22_Witness ==
    \E o \in Ops :
        /\ ops[o].attempt = 2
        /\ ops[o].stale = DoneFrame \o <<NL>>
        /\ ops[o].received = TextFrame \o Blank
        /\ ops[o].calls = <<Call("onText", <<"A">>)>>

\* C23: a frame candidate without a data line, or whose data line is not JSON, is
\* dropped: the read loop does not throw, and it makes the calls it makes for the
\* same body without that candidate.
C23_MalformedDropped ==
    \A m \in MalformedFrames :
        /\ body = m \o Blank => (phase # "threw" /\ calls = <<>>)
        /\ \A f \in GoodFrames :
              (body = m \o Blank \o f \o Blank \/ body = f \o Blank \o m \o Blank) =>
                  /\ phase # "threw"
                  /\ phase = "ended" => calls = WholeCalls(f \o Blank)

\* C23 witness: the text frame that follows a frame of broken JSON was dispatched
C23_Witness ==
    /\ phase = "ended"
    /\ body = BadJsonFrame \o Blank \o TextFrame \o Blank
    /\ Len(rest) = 0
    /\ calls = <<Call("onText", <<"A">>)>>

\* C24: once the token of an operation is cancelled, the operation begins no
\* attempt, sends no request and calls no handler (the event handlers and
\* onReconnecting) any more.
C24_NothingAfterCancel ==
    [][\A o \in Ops :
          o \in aborted =>
              /\ ops'[o].attempt = ops[o].attempt
              /\ ops'[o].fetches = ops[o].fetches
              /\ ops'[o].calls = ops[o].calls
              /\ ops'[o].reconnecting = ops[o].reconnecting]_vars

\* C24 witness: an operation cancelled during its first backoff wait has exited
\* with one request sent and one onReconnecting call
C24_Witness ==
    \E o \in Ops :
        /\ o \in aborted
        /\ ops[o].pc = "done"
        /\ ops[o].promise = "resolved"
        /\ ops[o].attempt = 1
        /\ ops[o].fetches = 1
        /\ ops[o].reconnecting = <<<<1, maxAttempts>>>>
        /\ ops[o].waits = <<>>

\* C25: among overlapping apiFetch calls, the 401 recovery of a call removes the
\* stored key only when it is the key the call's request was sent with; it never
\* removes a key enrolled and stored since.
C25_FreshKeyNotRemoved ==
    [][\A i \in Callers :
          (concurrent[i].pc = "fetch" /\ concurrent'[i].pc # "fetch"
              /\ apiKey # 0 /\ apiKey' = 0) =>
                 concurrent[i].apiKey = apiKey]_vars

\* C26: while an operation is in flight with its token not cancelled, isStreaming
\* reads true, and the token reference still points at the token of the newest
\* operation: the exit of an earlier operation clears neither.
C26_IsStreamingAccurate ==
    \A o \in Ops :
        (InFlight(o) /\ o \notin aborted) =>
            /\ isStreamingRef = TRUE
            /\ o = started => abortControllerRef = o

\* C27: every attempt and every backoff wait of an operation is given the
\* operation's own token, and no operation fails on reading a null token reference.
C27_OwnToken ==
    \A o \in Ops :
        LET r == ops[o] IN
        /\ r.pc # "idle" => r.signal = o
        /\ r.error # NullRefError
        /\ r.reason # NullRefError

\* C28: when the reader reports completion, the text after the last blank line is
\* left in the buffer and nothing of it is dispatched, be it a complete frame.
C28_UnterminatedTailDiscarded ==
    phase = "ended" =>
        /\ \E b \in BodiesOf(MaxBodyLen), t \in Tails : body = b \o t /\ buffer = t
        /\ \A k \in 1..Len(calls) : calls[k] # Call("onText", <<"B">>)

\* C28 witness: a terminated frame was dispatched and the complete frame after it,
\* which lacks the blank line, was not
C28_Witness ==
    /\ phase = "ended"
    /\ body = TextFrame \o Blank \o UnterminatedFrame
    /\ Len(rest) = 0
    /\ buffer = UnterminatedFrame
    /\ calls = <<Call("onText", <<"A">>)>>

\* C29: when every transport call, read and timer settles, each started operation
\* exits in the end: its promise has settled, onStreamEnd was called once, and
\* isStreaming reads false unless a later operation was started.
C29_Termination ==
    \A o \in Ops :
        (ops[o].pc # "idle") ~>
            /\ ops[o].pc = "done"
            /\ ops[o].promise # "pending"
            /\ ops[o].streamEnd = 1
            /\ started = o => isStreamingRef = FALSE

\* C29 witness: every operation was started and has exited, the last one after
\* a retry
C29_Witness ==
    /\ started = MaxOverlap
    /\ \A o \in 1..MaxOverlap :
          ops[o].pc = "done" /\ ops[o].promise # "pending" /\ ops[o].streamEnd = 1
    /\ Len(ops[MaxOverlap].waits) >= 1
    /\ isStreamingRef = FALSE

\* The ids of a list of conversations
Ids(conversations) == {conversations[n] : n \in 1..Len(conversations)}

\* C30: when the session list arrives, every conversation created since
\* loadSessions was called is still in conversations, and activeId is null or the
\* id of a conversation in conversations.
C30_LocalStateKept ==
    [][\A j \in Loads :
          (loads[j].pc = "fetch" /\ loads'[j].pc = "returned") =>
              /\ (Ids(session.conversations) \ Ids(loads[j].before))
                     \subseteq Ids(session'.conversations)
              /\ session'.activeId = <<>> \/ session'.activeId \in Ids(session'.conversations)]_vars

====
